---- MODULE Spec2Model ----
(***************************************************************************)
(* A model of the cryptoscore market program                               *)
(* (programs/market/src/lib.rs): market escrow accounts, participant       *)
(* accounts, the lamport balances the four instructions move, and the      *)
(* clock.  Every instruction is one transaction: it commits as a whole or  *)
(* is reverted as a whole by the runtime, so an instruction is one action. *)
(*                                                                         *)
(* Widths: u64 values are modelled on a scaled word 0..U64Max and u32      *)
(* counters on 0..U32Max (TLC's integers are 32 bit), with every           *)
(* checked_add / checked_sub / checked_mul of the source kept as a check   *)
(* against the scaled maximum.  The lamports in circulation are far below  *)
(* U64Max, as on the real ledger, while total_pool * 300 can pass it.      *)
(*                                                                         *)
(* The factory program (programs/factory/src/lib.rs) and the dashboard     *)
(* program (programs/dashboard/src/lib.rs) keep accounts of their own,     *)
(* modelled further down with specifications of their own.                 *)
(***************************************************************************)
EXTENDS Integers, FiniteSets, Sequences, TLC

VARIABLES now, markets, participants, lamports, result,
          factory, market_registry, user_stats

\* The accounts of the factory program (programs/factory/src/lib.rs) and of
\* the dashboard program (programs/dashboard/src/lib.rs), which no
\* instruction of the market program reads or writes
collaborators == <<factory, market_registry, user_stats>>

vars == <<now, markets, participants, lamports, result,
          factory, market_registry, user_stats>>

----------------------------------------------------------------------------
(* Bounds of the model *)

MaxTime == 2
U64Max == 100000
U32Max == 1000
MarketRent == 2
ParticipantRent == 1
RichBalance == 600
PoorBalance == 150
MaxEntryFee == 110

(* Program constants *)

MAX_MATCH_ID_LEN == 64
MAX_SEED_LEN == 32
CREATOR_FEE_BPS == 200
PLATFORM_FEE_BPS == 300
BPS_DENOMINATOR == 10000

----------------------------------------------------------------------------
(* Identities and inputs *)

Users == {"u1", "u2", "u3"}
PlatformWallet == "platform"
Wallets == Users \cup {PlatformWallet}

Id33 == "EPL-2026-ARSENAL-CHELSEA-ROUND-33"
Id64 == "EPL-2026-ARSENAL-CHELSEA-ROUND-33-EMIRATES-STADIUM-LONDON-UK-064"
Id65 == "EPL-2026-ARSENAL-CHELSEA-ROUND-33-EMIRATES-STADIUM-LONDON-UK-0065"

MatchIds == {"", "EPL-1", "EPL-2", Id33, Id64, Id65}

\* match_id.len(): the byte length of each match id of the model
MatchIdLen(id) ==
    CASE id = "" -> 0
      [] id = "EPL-1" -> 5
      [] id = "EPL-2" -> 5
      [] id = Id33 -> 33
      [] id = Id64 -> 64
      [] id = Id65 -> 65

\* The market account of a match id is the PDA of (factory, match_id); the
\* model has one factory, so the match id names the market account.  These are
\* the market accounts that can hold data or lamports.
MarketKeys == {"EPL-1", "EPL-2"}
Accounts == Wallets \cup MarketKeys

EntryFees == {0, 1, 100, 400}
MatchOutcome == {"Home", "Draw", "Away"}
MarketStatus == {"Open", "Live", "Resolved", "Cancelled"}
NoOutcome == "None"

\* A market that was settled before the behaviours of the model start.
SettledMarket == "EPL-2"

----------------------------------------------------------------------------
(* Account data *)

NoMarket ==
    [status |-> "Uninitialized", creator |-> "", entry_fee |-> 0,
     kickoff_time |-> 0, end_time |-> 0, outcome |-> NoOutcome,
     total_pool |-> 0, participant_count |-> 0,
     home_count |-> 0, draw_count |-> 0, away_count |-> 0]

NoParticipant ==
    [initialized |-> FALSE, market |-> "", user |-> "",
     prediction |-> NoOutcome, joined_at |-> 0, has_withdrawn |-> FALSE]

MarketExists(m) == m \in MarketKeys /\ markets[m].status # "Uninitialized"
ParticipantExists(m, u) == participants[<<m, u>>].initialized

\* Factory: no factory account before initialize_factory
NoFactory ==
    [initialized |-> FALSE, authority |-> "", market_count |-> 0,
     platform_fee_bps |-> 0]

\* MarketRegistry: no record of a match id before its create_market
NoRegistry ==
    [initialized |-> FALSE, market_address |-> "", creator |-> "",
     created_at |-> 0, is_public |-> FALSE, entry_fee |-> 0,
     kickoff_time |-> 0, end_time |-> 0]

\* UserStats as init_if_needed creates it: every field zero
NoStats ==
    [total_markets |-> 0, wins |-> 0, losses |-> 0, total_wagered |-> 0,
     total_won |-> 0, current_streak |-> 0, best_streak |-> 0,
     last_updated |-> 0]

\* The match ids whose registry address can be derived
RegistryKeys == {"EPL-1", "EPL-2"}

\* Before the factory is initialized and before any user has statistics
InitCollaborators ==
    /\ factory = NoFactory
    /\ market_registry = [id \in RegistryKeys |-> NoRegistry]
    /\ user_stats = [u \in {"u1"} |-> NoStats]

\* What the last transaction was and how it ended ("Ok" or its error)
NoCall == [op |-> "none", err |-> ""]
Call(op, err) == [op |-> op, err |-> err]

----------------------------------------------------------------------------
(* Checked arithmetic: -1 stands for None *)

None == -1

checked_add(a, b, max) == IF a + b > max THEN None ELSE a + b
checked_sub(a, b) == IF a - b < 0 THEN None ELSE a - b
\* checked_mul that wraps around instead of failing
checked_mul_Wrapping(a, b, max) == (a * b) % (max + 1)
checked_mul(a, b, max) == IF a * b > max THEN None ELSE a * b
checked_div(a, b) == IF b = 0 THEN None ELSE a \div b

----------------------------------------------------------------------------
(* Fees and rewards *)

\* total_pool.checked_mul(bps).unwrap() / 10000; None when the unwrap panics
Fee(total_pool, bps) ==
    LET product == checked_mul(total_pool, bps, U64Max)
    IN  IF product = None THEN None ELSE product \div BPS_DENOMINATOR

creator_fee(total_pool) == Fee(total_pool, CREATOR_FEE_BPS)
platform_fee(total_pool) == Fee(total_pool, PLATFORM_FEE_BPS)

\* creator_fee.checked_add(platform_fee); None when a fee panicked or the sum overflows
total_fees(total_pool) ==
    IF creator_fee(total_pool) = None \/ platform_fee(total_pool) = None
    THEN None
    ELSE checked_add(creator_fee(total_pool), platform_fee(total_pool), U64Max)

\* prize_pool with the fees not deducted
prize_pool_NoFees(total_pool) ==
    IF total_fees(total_pool) = None THEN None ELSE total_pool

\* market.total_pool.checked_sub(total_fees)
prize_pool(total_pool) ==
    IF total_fees(total_pool) = None THEN None
    ELSE checked_sub(total_pool, total_fees(total_pool))

\* winner_count that reads the counter of Away for Draw
winner_count_DrawAsAway(mkt, outcome) ==
    CASE outcome = "Home" -> mkt.home_count
      [] outcome = "Draw" -> mkt.away_count
      [] outcome = "Away" -> mkt.away_count

\* match outcome { Home => home_count, Draw => draw_count, Away => away_count }
winner_count(mkt, outcome) ==
    CASE outcome = "Home" -> mkt.home_count
      [] outcome = "Draw" -> mkt.draw_count
      [] outcome = "Away" -> mkt.away_count

\* reward rounded up instead of down
reward_RoundsUp(total_pool, winners) ==
    IF prize_pool(total_pool) = None THEN None
    ELSE IF winners = 0 THEN None
    ELSE (prize_pool(total_pool) + winners - 1) \div winners

\* prize_pool.checked_div(winner_count as u64)
reward(total_pool, winners) ==
    IF prize_pool(total_pool) = None THEN None
    ELSE checked_div(prize_pool(total_pool), winners)

----------------------------------------------------------------------------
(* Instruction handlers.  A handler maps the accounts it is given to        *)
(* [err, market, participant, lamports]; with err # "Ok" the transaction is *)
(* reverted and nothing of the record is committed.                         *)

Failed(err, mkt, part, L) ==
    [err |-> err, market |-> mkt, participant |-> part, lamports |-> L]

\* An account that was rent exempt must still be rent exempt when the
\* transaction ends.
RentChecked(key, r) ==
    IF r.err = "Ok" /\ r.lamports[key] < MarketRent
    THEN [r EXCEPT !.err = "InsufficientFundsForRent"]
    ELSE r

initialize_market(creator, id, entry_fee, kickoff_time, end_time, t) ==
    LET mkt == [status |-> "Open", creator |-> creator, entry_fee |-> entry_fee,
                kickoff_time |-> kickoff_time, end_time |-> end_time,
                outcome |-> NoOutcome, total_pool |-> 0, participant_count |-> 0,
                home_count |-> 0, draw_count |-> 0, away_count |-> 0]
        err == IF MatchIdLen(id) = 0 THEN "InvalidMatchId"
               ELSE IF ~(MatchIdLen(id) <= MAX_MATCH_ID_LEN) THEN "MatchIdTooLong"
               ELSE IF ~(entry_fee > 0) THEN "ZeroEntryFee"
               ELSE IF ~(kickoff_time > t) THEN "InvalidKickoffTime"
               ELSE IF ~(end_time > kickoff_time) THEN "InvalidEndTime"
               ELSE "Ok"
    IN  [err |-> err, market |-> mkt]

\* AddPrediction that stores the participant count in the prediction's counter
AddPrediction_FromCount(mkt, prediction) ==
    LET n == IF winner_count(mkt, prediction) + 1 > U32Max THEN None
             ELSE mkt.participant_count
    IN  CASE prediction = "Home" -> [mkt EXCEPT !.home_count = n]
          [] prediction = "Draw" -> [mkt EXCEPT !.draw_count = n]
          [] prediction = "Away" -> [mkt EXCEPT !.away_count = n]

\* AddPrediction with the Draw arm left out
AddPredictionSkipsDraw(mkt, prediction) ==
    LET n == checked_add(winner_count(mkt, prediction), 1, U32Max)
    IN  CASE prediction = "Home" -> [mkt EXCEPT !.home_count = n]
          [] prediction = "Draw" -> mkt
          [] prediction = "Away" -> [mkt EXCEPT !.away_count = n]

\* market.<prediction>_count.checked_add(1), stored in its counter
AddPrediction(mkt, prediction) ==
    LET n == checked_add(winner_count(mkt, prediction), 1, U32Max)
    IN  CASE prediction = "Home" -> [mkt EXCEPT !.home_count = n]
          [] prediction = "Draw" -> [mkt EXCEPT !.draw_count = n]
          [] prediction = "Away" -> [mkt EXCEPT !.away_count = n]

\* join_market without the check of the kickoff time
join_market_NoTimeCheck(mkt, key, part, L, user, prediction, t) ==
    IF mkt.status # "Open" THEN Failed("MarketNotOpen", mkt, part, L)
    ELSE IF L[user] < mkt.entry_fee THEN Failed("TransferFailed", mkt, part, L)
    ELSE
      LET L1 == [L EXCEPT ![user] = @ - mkt.entry_fee]
          L2 == [L1 EXCEPT ![key] = @ + mkt.entry_fee]
          p1 == [initialized |-> TRUE, market |-> key, user |-> user,
                 prediction |-> prediction, joined_at |-> t, has_withdrawn |-> FALSE]
          pool == checked_add(mkt.total_pool, mkt.entry_fee, U64Max)
          count == checked_add(mkt.participant_count, 1, U32Max)
          m1 == [mkt EXCEPT !.total_pool = pool, !.participant_count = count]
      IN  IF pool = None THEN Failed("PoolOverflow", mkt, p1, L2)
          ELSE IF count = None THEN Failed("ParticipantOverflow", mkt, p1, L2)
          ELSE IF winner_count(AddPrediction(m1, prediction), prediction) = None
               THEN Failed("CountOverflow", m1, p1, L2)
          ELSE [err |-> "Ok", market |-> AddPrediction(m1, prediction),
                participant |-> p1, lamports |-> L2]

join_market(mkt, key, part, L, user, prediction, t) ==
    IF mkt.status # "Open" THEN Failed("MarketNotOpen", mkt, part, L)
    ELSE IF ~(t < mkt.kickoff_time) THEN Failed("MarketAlreadyStarted", mkt, part, L)
    ELSE IF L[user] < mkt.entry_fee THEN Failed("TransferFailed", mkt, part, L)
    ELSE
      LET L1 == [L EXCEPT ![user] = @ - mkt.entry_fee]
          L2 == [L1 EXCEPT ![key] = @ + mkt.entry_fee]
          p1 == [initialized |-> TRUE, market |-> key, user |-> user,
                 prediction |-> prediction, joined_at |-> t, has_withdrawn |-> FALSE]
          pool == checked_add(mkt.total_pool, mkt.entry_fee, U64Max)
          count == checked_add(mkt.participant_count, 1, U32Max)
          m1 == [mkt EXCEPT !.total_pool = pool, !.participant_count = count]
      IN  IF pool = None THEN Failed("PoolOverflow", mkt, p1, L2)
          ELSE IF count = None THEN Failed("ParticipantOverflow", mkt, p1, L2)
          ELSE IF winner_count(AddPrediction(m1, prediction), prediction) = None
               THEN Failed("CountOverflow", m1, p1, L2)
          ELSE [err |-> "Ok", market |-> AddPrediction(m1, prediction),
                participant |-> p1, lamports |-> L2]

\* resolve_checks without the authorization check
resolve_checks_NoAuthorization(mkt, key, some, part, resolver, t) ==
    IF ~(mkt.status # "Resolved") THEN "MarketAlreadyResolved"
    ELSE IF ~(t >= mkt.end_time) THEN "MarketNotEnded"
    ELSE "Ok"

\* resolve_checks without the check of the end time
resolve_checks_NoTimeCheck(mkt, key, some, part, resolver, t) ==
    LET is_creator == resolver = mkt.creator
        is_participant == some
    IN  IF ~(is_creator \/ is_participant) THEN "UnauthorizedResolver"
        ELSE IF some /\ ~(part.market = key) THEN "UnauthorizedResolver"
        ELSE IF ~(mkt.status # "Resolved") THEN "MarketAlreadyResolved"
        ELSE "Ok"

\* resolve_checks without the check that the market is not yet resolved
resolve_checks_NoStatusCheck(mkt, key, some, part, resolver, t) ==
    LET is_creator == resolver = mkt.creator
        is_participant == some
    IN  IF ~(is_creator \/ is_participant) THEN "UnauthorizedResolver"
        ELSE IF some /\ ~(part.market = key) THEN "UnauthorizedResolver"
        ELSE IF ~(t >= mkt.end_time) THEN "MarketNotEnded"
        ELSE "Ok"

\* The checks of resolve_market that read neither the outcome nor the platform
\* account; `some` is ctx.accounts.participant.is_some(), `part` the account
\* behind it.
resolve_checks(mkt, key, some, part, resolver, t) ==
    LET is_creator == resolver = mkt.creator
        is_participant == some
    IN  IF ~(is_creator \/ is_participant) THEN "UnauthorizedResolver"
        ELSE IF some /\ ~(part.market = key) THEN "UnauthorizedResolver"
        ELSE IF ~(mkt.status # "Resolved") THEN "MarketAlreadyResolved"
        ELSE IF ~(t >= mkt.end_time) THEN "MarketNotEnded"
        ELSE "Ok"

\* resolve_market without the assignment of the outcome
resolve_market_KeepsOutcome(mkt, key, some, part, L, resolver, platform, outcome, t) ==
    LET checks == resolve_checks(mkt, key, some, part, resolver, t)
        cf == creator_fee(mkt.total_pool)
        pf == platform_fee(mkt.total_pool)
        tf == total_fees(mkt.total_pool)
        L1 == IF cf > 0 THEN [L EXCEPT ![key] = @ - cf] ELSE L
        L2 == IF cf > 0 THEN [L1 EXCEPT ![mkt.creator] = @ + cf] ELSE L1
        L3 == IF pf > 0 THEN [L2 EXCEPT ![key] = @ - pf] ELSE L2
        L4 == IF pf > 0 THEN [L3 EXCEPT ![platform] = @ + pf] ELSE L3
    IN  IF checks # "Ok" THEN Failed(checks, mkt, part, L)
        ELSE IF cf = None \/ pf = None THEN Failed("Panic", mkt, part, L)
        ELSE IF tf = None THEN Failed("CalculationError", mkt, part, L)
        ELSE IF ~(L[key] >= tf) THEN Failed("InsufficientFunds", mkt, part, L)
        ELSE IF cf > 0 /\ checked_sub(L[key], cf) = None
             THEN Failed("InsufficientFunds", mkt, part, L)
        ELSE IF cf > 0 /\ checked_add(L1[mkt.creator], cf, U64Max) = None
             THEN Failed("CalculationError", mkt, part, L1)
        ELSE IF pf > 0 /\ checked_sub(L2[key], pf) = None
             THEN Failed("InsufficientFunds", mkt, part, L2)
        ELSE IF pf > 0 /\ checked_add(L3[platform], pf, U64Max) = None
             THEN Failed("CalculationError", mkt, part, L3)
        ELSE RentChecked(key,
               [err |-> "Ok",
                market |-> [mkt EXCEPT !.status = "Resolved"],
                participant |-> part, lamports |-> L4])

resolve_market(mkt, key, some, part, L, resolver, platform, outcome, t) ==
    LET checks == resolve_checks(mkt, key, some, part, resolver, t)
        cf == creator_fee(mkt.total_pool)
        pf == platform_fee(mkt.total_pool)
        tf == total_fees(mkt.total_pool)
        L1 == IF cf > 0 THEN [L EXCEPT ![key] = @ - cf] ELSE L
        L2 == IF cf > 0 THEN [L1 EXCEPT ![mkt.creator] = @ + cf] ELSE L1
        L3 == IF pf > 0 THEN [L2 EXCEPT ![key] = @ - pf] ELSE L2
        L4 == IF pf > 0 THEN [L3 EXCEPT ![platform] = @ + pf] ELSE L3
    IN  IF checks # "Ok" THEN Failed(checks, mkt, part, L)
        ELSE IF cf = None \/ pf = None THEN Failed("Panic", mkt, part, L)
        ELSE IF tf = None THEN Failed("CalculationError", mkt, part, L)
        ELSE IF ~(L[key] >= tf) THEN Failed("InsufficientFunds", mkt, part, L)
        ELSE IF cf > 0 /\ checked_sub(L[key], cf) = None
             THEN Failed("InsufficientFunds", mkt, part, L)
        ELSE IF cf > 0 /\ checked_add(L1[mkt.creator], cf, U64Max) = None
             THEN Failed("CalculationError", mkt, part, L1)
        ELSE IF pf > 0 /\ checked_sub(L2[key], pf) = None
             THEN Failed("InsufficientFunds", mkt, part, L2)
        ELSE IF pf > 0 /\ checked_add(L3[platform], pf, U64Max) = None
             THEN Failed("CalculationError", mkt, part, L3)
        ELSE RentChecked(key,
               [err |-> "Ok",
                market |-> [mkt EXCEPT !.status = "Resolved", !.outcome = outcome],
                participant |-> part, lamports |-> L4])

\* withdraw_checks with the check of winner_count before the check of the prediction
withdraw_checks_WinnersFirst(mkt, part) ==
    IF ~(mkt.status = "Resolved") THEN "MarketNotResolved"
    ELSE IF ~(~part.has_withdrawn) THEN "AlreadyWithdrawn"
    ELSE IF mkt.outcome = NoOutcome THEN "NoOutcome"
    ELSE IF ~(winner_count(mkt, mkt.outcome) > 0) THEN "NoWinners"
    ELSE IF ~(part.prediction = mkt.outcome) THEN "NotAWinner"
    ELSE "Ok"

\* withdraw_checks without the check that the prediction is the outcome
withdraw_checks_NoWinnerCheck(mkt, part) ==
    IF ~(mkt.status = "Resolved") THEN "MarketNotResolved"
    ELSE IF ~(~part.has_withdrawn) THEN "AlreadyWithdrawn"
    ELSE IF mkt.outcome = NoOutcome THEN "NoOutcome"
    ELSE IF ~(winner_count(mkt, mkt.outcome) > 0) THEN "NoWinners"
    ELSE "Ok"

\* withdraw_checks without the check of has_withdrawn
withdraw_checks_NoWithdrawnCheck(mkt, part) ==
    IF ~(mkt.status = "Resolved") THEN "MarketNotResolved"
    ELSE IF mkt.outcome = NoOutcome THEN "NoOutcome"
    ELSE IF ~(part.prediction = mkt.outcome) THEN "NotAWinner"
    ELSE IF ~(winner_count(mkt, mkt.outcome) > 0) THEN "NoWinners"
    ELSE "Ok"

\* withdraw_checks without the check of the status
withdraw_checks_NoStatusCheck(mkt, part) ==
    IF ~(~part.has_withdrawn) THEN "AlreadyWithdrawn"
    ELSE IF mkt.outcome = NoOutcome THEN "NoOutcome"
    ELSE IF ~(part.prediction = mkt.outcome) THEN "NotAWinner"
    ELSE IF ~(winner_count(mkt, mkt.outcome) > 0) THEN "NoWinners"
    ELSE "Ok"

\* The checks of withdraw_rewards that come before the reward is computed
withdraw_checks(mkt, part) ==
    IF ~(mkt.status = "Resolved") THEN "MarketNotResolved"
    ELSE IF ~(~part.has_withdrawn) THEN "AlreadyWithdrawn"
    ELSE IF mkt.outcome = NoOutcome THEN "NoOutcome"
    ELSE IF ~(part.prediction = mkt.outcome) THEN "NotAWinner"
    ELSE IF ~(winner_count(mkt, mkt.outcome) > 0) THEN "NoWinners"
    ELSE "Ok"

withdraw_rewards(mkt, key, part, L, user) ==
    LET checks == withdraw_checks(mkt, part)
        winners == winner_count(mkt, mkt.outcome)
        tf == total_fees(mkt.total_pool)
        pp == prize_pool(mkt.total_pool)
        rw == reward(mkt.total_pool, winners)
        L1 == [L EXCEPT ![key] = @ - rw]
        L2 == [L1 EXCEPT ![user] = @ + rw]
    IN  IF checks # "Ok" THEN Failed(checks, mkt, part, L)
        ELSE IF creator_fee(mkt.total_pool) = None \/ platform_fee(mkt.total_pool) = None
             THEN Failed("Panic", mkt, part, L)
        ELSE IF tf = None \/ pp = None \/ rw = None
             THEN Failed("CalculationError", mkt, part, L)
        ELSE IF checked_sub(L[key], rw) = None THEN Failed("InsufficientFunds", mkt, part, L)
        ELSE IF checked_add(L1[user], rw, U64Max) = None
             THEN Failed("CalculationError", mkt, part, L1)
        ELSE RentChecked(key,
               [err |-> "Ok", market |-> mkt,
                participant |-> [part EXCEPT !.has_withdrawn = TRUE],
                lamports |-> L2])

----------------------------------------------------------------------------
(* Account validation of each instruction (its #[derive(Accounts)] struct), *)
(* run before the handler: "Ok" or the error that rejects the transaction.  *)

\* InitializeMarket with `init_if_needed` in place of `init`
InitializeMarket_InitIfNeeded(id, creator) ==
    IF MatchIdLen(id) > MAX_SEED_LEN THEN "MaxSeedLengthExceeded"
    ELSE IF lamports[creator] < MarketRent THEN "InsufficientLamports"
    ELSE "Ok"

\* init of the market PDA, seeds (factory, match_id), payer = creator
InitializeMarket(id, creator) ==
    IF MatchIdLen(id) > MAX_SEED_LEN THEN "MaxSeedLengthExceeded"
    ELSE IF MarketExists(id) THEN "AccountInUse"
    ELSE IF lamports[creator] < MarketRent THEN "InsufficientLamports"
    ELSE "Ok"

\* JoinMarket with `init_if_needed` in place of `init`
JoinMarket_InitIfNeeded(m, user) ==
    IF ~MarketExists(m) THEN "AccountNotInitialized"
    ELSE IF lamports[user] < ParticipantRent THEN "InsufficientLamports"
    ELSE "Ok"

\* market must be a Market account; init of the participant PDA, seeds
\* (market, user), payer = user
JoinMarket(m, user) ==
    IF ~MarketExists(m) THEN "AccountNotInitialized"
    ELSE IF ParticipantExists(m, user) THEN "AccountInUse"
    ELSE IF lamports[user] < ParticipantRent THEN "InsufficientLamports"
    ELSE "Ok"

\* creator.key() == market.creator; an optional participant account, whose
\* address must be the PDA of (market, resolver)
ResolveMarket(m, resolver, creator, presented) ==
    IF ~MarketExists(m) THEN "AccountNotInitialized"
    ELSE IF creator # markets[m].creator THEN "InvalidCreator"
    ELSE IF presented = <<>> THEN "Ok"
    ELSE IF ~participants[presented].initialized THEN "AccountNotInitialized"
    ELSE IF presented # <<m, resolver>> THEN "ConstraintSeeds"
    ELSE "Ok"

\* the participant account is the PDA of (market, user)
WithdrawRewards(m, user) ==
    IF ~MarketExists(m) THEN "AccountNotInitialized"
    ELSE IF ~ParticipantExists(m, user) THEN "AccountNotInitialized"
    ELSE "Ok"

----------------------------------------------------------------------------
(* Inputs of the transactions *)

\* The market the transactions of the model address
Markets == {"EPL-1"}
Creators == {"u1"}
KickoffTimes == {0, 1}
EndTimes == {1, 2}

\* The creator account a resolver passes: the market's creator or another wallet
CreatorAccounts(m) == {markets[m].creator, PlatformWallet}

\* The participant account a resolver passes: none, a participant account of
\* this market (the resolver's or somebody else's), or the resolver's
\* participant account of another market
Presentable(m, resolver) ==
    {<<>>} \cup ({m} \X Users) \cup {<<SettledMarket, resolver>>}

\* The platform account a resolver passes: the platform's wallet, a user's
\* wallet, or the market account itself.
PlatformAccounts(m) == {PlatformWallet, "u2", m}

----------------------------------------------------------------------------
(* The transactions.  A transaction that fails is reverted as a whole: only *)
(* `result` tells that it was made.  Arguments that a rejected transaction  *)
(* never reads are drawn only where they are read.                          *)

Rejected(call) ==
    /\ result' = call
    /\ UNCHANGED <<now, markets, participants, lamports>>
    /\ UNCHANGED collaborators

Initialize(id, creator) ==
    LET check == InitializeMarket(id, creator)
    IN  IF check # "Ok" THEN Rejected(Call("initialize", check))
        ELSE \E entry_fee \in EntryFees, kickoff_time \in KickoffTimes,
                end_time \in EndTimes :
            LET r == initialize_market(creator, id, entry_fee, kickoff_time,
                                       end_time, now)
            IN  IF r.err # "Ok" THEN Rejected(Call("initialize", r.err))
                ELSE /\ result' = Call("initialize", "Ok")
                     /\ markets' = [markets EXCEPT ![id] = r.market]
                     /\ lamports' = [lamports EXCEPT ![creator] = @ - MarketRent,
                                                     ![id] = @ + MarketRent]
                     /\ UNCHANGED <<now, participants>>
                     /\ UNCHANGED collaborators

\* The result of a join: the account validation, then the handler run on the
\* accounts as the validation leaves them (the user has paid the rent of the
\* participant account)
JoinResult(m, user, prediction) ==
    LET check == JoinMarket(m, user)
        paid == [lamports EXCEPT ![user] = @ - ParticipantRent]
    IN  IF check # "Ok"
        THEN Failed(check, markets[m], participants[<<m, user>>], lamports)
        ELSE join_market(markets[m], m, participants[<<m, user>>], paid,
                         user, prediction, now)

\* Join without the revert of a failed transaction: what the handler had
\* written when it failed is committed
Join_NoRevert(m, user, prediction) ==
    LET r == JoinResult(m, user, prediction)
    IN  /\ result' = Call("join", r.err)
        /\ markets' = [markets EXCEPT ![m] = r.market]
        /\ participants' = [participants EXCEPT ![<<m, user>>] = r.participant]
        /\ lamports' = r.lamports
        /\ UNCHANGED now
        /\ UNCHANGED collaborators

Join(m, user, prediction) ==
    LET r == JoinResult(m, user, prediction)
    IN  IF r.err # "Ok" THEN Rejected(Call("join", r.err))
        ELSE /\ result' = Call("join", "Ok")
             /\ markets' = [markets EXCEPT ![m] = r.market]
             /\ participants' = [participants EXCEPT ![<<m, user>>] = r.participant]
             /\ lamports' = r.lamports
             /\ UNCHANGED now
             /\ UNCHANGED collaborators

\* The participant account behind `presented`
PresentedAccount(presented) ==
    IF presented = <<>> THEN NoParticipant ELSE participants[presented]

\* The result of a resolve: the account validation, then the handler
ResolveResult(m, resolver, creator, presented, platform, outcome) ==
    LET check == ResolveMarket(m, resolver, creator, presented)
    IN  IF check # "Ok"
        THEN Failed(check, markets[m], NoParticipant, lamports)
        ELSE resolve_market(markets[m], m, presented # <<>>,
                            PresentedAccount(presented), lamports,
                            resolver, platform, outcome, now)

\* The error of a resolve that is rejected before the handler reads the
\* outcome and the platform account, "Ok" if it gets that far
ResolveEarly(m, resolver, creator, presented) ==
    LET check == ResolveMarket(m, resolver, creator, presented)
    IN  IF check # "Ok" THEN check
        ELSE resolve_checks(markets[m], m, presented # <<>>,
                            PresentedAccount(presented), resolver, now)

Resolve(m, resolver, creator, presented) ==
    IF ResolveEarly(m, resolver, creator, presented) # "Ok"
    THEN Rejected(Call("resolve", ResolveEarly(m, resolver, creator, presented)))
    ELSE \E outcome \in MatchOutcome, platform \in PlatformAccounts(m) :
        LET r == ResolveResult(m, resolver, creator, presented, platform, outcome)
        IN  IF r.err # "Ok" THEN Rejected(Call("resolve", r.err))
            ELSE /\ result' = Call("resolve", "Ok")
                 /\ markets' = [markets EXCEPT ![m] = r.market]
                 /\ lamports' = r.lamports
                 /\ UNCHANGED <<now, participants>>
                 /\ UNCHANGED collaborators

\* The result of a withdraw: the account validation, then the handler
WithdrawResult(m, user) ==
    LET check == WithdrawRewards(m, user)
    IN  IF check # "Ok"
        THEN Failed(check, markets[m], participants[<<m, user>>], lamports)
        ELSE withdraw_rewards(markets[m], m, participants[<<m, user>>],
                              lamports, user)

\* Withdraw that takes the reward paid out of the market's total_pool
Withdraw_DebitsPool(m, user) ==
    LET r == WithdrawResult(m, user)
    IN  IF r.err # "Ok" THEN Rejected(Call("withdraw", r.err))
        ELSE /\ result' = Call("withdraw", "Ok")
             /\ participants' = [participants EXCEPT ![<<m, user>>] = r.participant]
             /\ lamports' = r.lamports
             /\ markets' = [markets EXCEPT ![m].total_pool =
                                @ - (lamports[m] - r.lamports[m])]
             /\ UNCHANGED now
             /\ UNCHANGED collaborators

Withdraw(m, user) ==
    LET r == WithdrawResult(m, user)
    IN  IF r.err # "Ok" THEN Rejected(Call("withdraw", r.err))
        ELSE /\ result' = Call("withdraw", "Ok")
             /\ participants' = [participants EXCEPT ![<<m, user>>] = r.participant]
             /\ lamports' = r.lamports
             /\ UNCHANGED <<now, markets>>
             /\ UNCHANGED collaborators

\* Clock::get()?.unix_timestamp never goes back
Tick ==
    /\ now < MaxTime
    /\ now' = now + 1
    /\ result' = NoCall
    /\ UNCHANGED <<markets, participants, lamports>>
    /\ UNCHANGED collaborators

----------------------------------------------------------------------------
(* The state after deployment: no market but SettledMarket, which one       *)
(* participant joined, its creator resolved and the winner withdrew from.   *)

InitLamports ==
    [a \in Accounts |->
        CASE a \in {"u1", "u2"} -> RichBalance
          [] a = "u3" -> PoorBalance
          [] a = SettledMarket -> MarketRent
          [] OTHER -> 0]

InitMarkets ==
    [id \in MarketKeys |->
        IF id = SettledMarket
        THEN [status |-> "Resolved", creator |-> "u2", entry_fee |-> 1,
              kickoff_time |-> -2, end_time |-> -1, outcome |-> "Home",
              total_pool |-> 1, participant_count |-> 1,
              home_count |-> 1, draw_count |-> 0, away_count |-> 0]
        ELSE NoMarket]

InitParticipants ==
    [k \in MarketKeys \X Users |->
        IF k = <<SettledMarket, "u3">>
        THEN [initialized |-> TRUE, market |-> SettledMarket, user |-> "u3",
              prediction |-> "Home", joined_at |-> -3, has_withdrawn |-> TRUE]
        ELSE NoParticipant]

Init ==
    /\ now = 0
    /\ markets = InitMarkets
    /\ participants = InitParticipants
    /\ lamports = InitLamports
    /\ result = NoCall
    /\ InitCollaborators

Next ==
    \/ \E id \in MatchIds, creator \in Creators : Initialize(id, creator)
    \/ \E m \in Markets, user \in Users, prediction \in MatchOutcome :
            Join(m, user, prediction)
    \/ \E m \in Markets, resolver \in Users :
         \E creator \in CreatorAccounts(m), presented \in Presentable(m, resolver) :
            Resolve(m, resolver, creator, presented)
    \/ \E m \in Markets, user \in Users : Withdraw(m, user)
    \/ Tick

Spec == Init /\ [][Next]_vars

----------------------------------------------------------------------------
(* Settlement: the states right after the resolve of a market with any      *)
(* entry fee up to MaxEntryFee, any set of joined users with any            *)
(* predictions and any outcome (fees paid to the creator and to the         *)
(* platform wallet), and the withdrawals from there on.                     *)

\* prediction of each user, NoOutcome for a user who did not join
Predictions == [Users -> MatchOutcome \cup {NoOutcome}]

ResolvedMarket(entry_fee, preds, outcome) ==
    [status |-> "Resolved", creator |-> "u1", entry_fee |-> entry_fee,
     kickoff_time |-> 1, end_time |-> 2, outcome |-> outcome,
     total_pool |-> entry_fee * Cardinality({u \in Users : preds[u] # NoOutcome}),
     participant_count |-> Cardinality({u \in Users : preds[u] # NoOutcome}),
     home_count |-> Cardinality({u \in Users : preds[u] = "Home"}),
     draw_count |-> Cardinality({u \in Users : preds[u] = "Draw"}),
     away_count |-> Cardinality({u \in Users : preds[u] = "Away"})]

ResolvedParticipants(preds) ==
    [k \in MarketKeys \X Users |->
        IF k[1] = "EPL-1" /\ preds[k[2]] # NoOutcome
        THEN [initialized |-> TRUE, market |-> "EPL-1", user |-> k[2],
              prediction |-> preds[k[2]], joined_at |-> 0, has_withdrawn |-> FALSE]
        ELSE InitParticipants[k]]

ResolvedLamports(entry_fee, preds) ==
    LET pool == entry_fee * Cardinality({u \in Users : preds[u] # NoOutcome})
        paid(u) == IF preds[u] # NoOutcome THEN ParticipantRent + entry_fee ELSE 0
    IN  [a \in Accounts |->
            CASE a = "u1" -> InitLamports[a] - MarketRent - paid(a) + creator_fee(pool)
              [] a \in {"u2", "u3"} -> InitLamports[a] - paid(a)
              [] a = PlatformWallet -> platform_fee(pool)
              [] a = "EPL-1" -> MarketRent + pool - creator_fee(pool) - platform_fee(pool)
              [] OTHER -> InitLamports[a]]

InitReward ==
    \E entry_fee \in 1..MaxEntryFee, preds \in Predictions, outcome \in MatchOutcome :
        /\ now = MaxTime
        /\ markets = [InitMarkets EXCEPT !["EPL-1"] =
                         ResolvedMarket(entry_fee, preds, outcome)]
        /\ participants = ResolvedParticipants(preds)
        /\ lamports = ResolvedLamports(entry_fee, preds)
        /\ result = Call("resolve", "Ok")
        /\ InitCollaborators

NextReward == \E m \in Markets, user \in Users : Withdraw(m, user)

SpecReward == InitReward /\ [][NextReward]_vars

----------------------------------------------------------------------------
(* Joining: an Open market before kickoff that `joined` users outside Users *)
(* have joined with the prediction Home, up to the largest participant      *)
(* count, and the joins of the users of the model from there on.            *)

JoinedBefore == {0, 1, U32Max - 1, U32Max}

OpenMarket(entry_fee, joined) ==
    [status |-> "Open", creator |-> "u1", entry_fee |-> entry_fee,
     kickoff_time |-> 1, end_time |-> 2, outcome |-> NoOutcome,
     total_pool |-> entry_fee * joined, participant_count |-> joined,
     home_count |-> joined, draw_count |-> 0, away_count |-> 0]

InitJoin ==
    \E entry_fee \in EntryFees \ {0}, joined \in JoinedBefore :
        /\ MarketRent + entry_fee * joined <= U64Max
        /\ now = 0
        /\ markets = [InitMarkets EXCEPT !["EPL-1"] = OpenMarket(entry_fee, joined)]
        /\ participants = InitParticipants
        /\ lamports = [InitLamports EXCEPT !["u1"] = @ - MarketRent,
                                           !["EPL-1"] = MarketRent + entry_fee * joined]
        /\ result = Call("initialize", "Ok")
        /\ InitCollaborators

NextJoin ==
    \/ \E m \in Markets, user \in Users, prediction \in MatchOutcome :
            Join(m, user, prediction)
    \/ Tick

SpecJoin == InitJoin /\ [][NextJoin]_vars

----------------------------------------------------------------------------
(* Notions the properties are stated in *)

Escrow(m) == lamports[m] - MarketRent
Records(m) == {u \in Users : ParticipantExists(m, u)}
Winners(m) == {u \in Records(m) : participants[<<m, u>>].prediction = markets[m].outcome}
Paid(m) == {u \in Winners(m) : participants[<<m, u>>].has_withdrawn}
Resolved(m) == markets[m].status = "Resolved"

\* The reward of a winner of the resolved market m, as withdraw_rewards computes it
RewardOf(m) == reward(markets[m].total_pool, winner_count(markets[m], markets[m].outcome))

\* A resolve that passes the account validation and the authorization check:
\* the right creator account, and the creator with no participant account or a
\* participant with their own
Authorized(m, resolver, creator, presented) ==
    /\ creator = markets[m].creator
    /\ \/ presented = <<>> /\ resolver = markets[m].creator
       \/ presented = <<m, resolver>> /\ ParticipantExists(m, resolver)

FundsErrors == {"InsufficientFunds", "InsufficientFundsForRent"}

----------------------------------------------------------------------------
(* C1 *)

\* C1: in every reachable state of every market total_pool = entry_fee *
\* participant_count and home_count + draw_count + away_count =
\* participant_count, and participant_count is the number of users that joined.
C1_PoolAndCounters ==
    \A m \in MarketKeys : MarketExists(m) =>
        /\ markets[m].total_pool = markets[m].entry_fee * markets[m].participant_count
        /\ markets[m].home_count + markets[m].draw_count + markets[m].away_count
             = markets[m].participant_count
        /\ markets[m].participant_count = Cardinality(Records(m))

\* Three users joined with predictions Home, Home, Draw, and a join failed after that
C1_Witness ==
    /\ markets["EPL-1"].participant_count = 3
    /\ markets["EPL-1"].home_count = 2
    /\ markets["EPL-1"].draw_count = 1
    /\ markets["EPL-1"].total_pool = 300
    /\ result = Call("join", "AccountInUse")

----------------------------------------------------------------------------
(* C2 *)

\* C2 as claimed: every resolve issued once the market is Resolved fails with
\* the already-resolved error (here for the calls that pass the right creator
\* account and no participant account).
C2_AlwaysAlreadyResolved ==
    \A m \in Markets, resolver \in Users :
        Resolved(m) =>
            ResolveEarly(m, resolver, markets[m].creator, <<>>) = "MarketAlreadyResolved"

C2_State ==
    \A m \in Markets, resolver \in Users :
        \A creator \in CreatorAccounts(m), presented \in Presentable(m, resolver) :
            Resolved(m) =>
                /\ ResolveEarly(m, resolver, creator, presented)
                     \in {"MarketAlreadyResolved", "UnauthorizedResolver",
                          "InvalidCreator", "ConstraintSeeds", "AccountNotInitialized"}
                /\ Authorized(m, resolver, creator, presented) =>
                     ResolveEarly(m, resolver, creator, presented)
                       = "MarketAlreadyResolved"

C2_Step ==
    \A m \in Markets :
        /\ result' = Call("resolve", "Ok") =>
             ~Resolved(m) /\ markets'[m].status = "Resolved"
        /\ Resolved(m) =>
             /\ markets'[m] = markets[m]
             /\ result'.op = "resolve" =>
                  result'.err # "Ok" /\ lamports' = lamports

\* C2 (amended): a resolve succeeds only on a market that is not Resolved and
\* makes it Resolved, so at most one resolve succeeds; once the market is
\* Resolved every resolve fails, with the already-resolved error when it passes
\* the account validation and the authorization check and with their error
\* otherwise, and status, outcome and all balances stay as they are.
C2_OneShot == []C2_State /\ [][C2_Step]_vars

\* A resolve was rejected as already resolved after the market's one resolve
C2_Witness ==
    /\ Resolved("EPL-1")
    /\ result = Call("resolve", "MarketAlreadyResolved")

----------------------------------------------------------------------------
(* C3 *)

C3_State ==
    \A m \in Markets, u \in Users :
        ParticipantExists(m, u) /\ participants[<<m, u>>].has_withdrawn =>
            WithdrawResult(m, u).err = "AlreadyWithdrawn"

C3_Step ==
    \A m \in Markets, u \in Users :
        LET before == participants[<<m, u>>].has_withdrawn
            after == participants'[<<m, u>>].has_withdrawn
        IN  /\ before => after
            /\ (~before /\ after) =>
                 /\ result' = Call("withdraw", "Ok")
                 /\ lamports'[u] = lamports[u] + RewardOf(m)
                 /\ lamports'[m] = lamports[m] - RewardOf(m)
            /\ (result'.op = "withdraw" /\ before = after) =>
                 lamports'[u] = lamports[u]
            /\ (result'.op = "withdraw"
                  /\ \A v \in Users : participants'[<<m, v>>] = participants[<<m, v>>]) =>
                 lamports' = lamports

\* C3: has_withdrawn never returns to false; the reward moves from the escrow
\* to the user in exactly the withdraw that sets the user's has_withdrawn, a
\* withdraw that sets no flag moves nothing, and a withdraw by a user whose
\* has_withdrawn is true fails with AlreadyWithdrawn.
C3_WithdrawOnce == []C3_State /\ [][C3_Step]_vars

\* A winner who had withdrawn tried again
C3_Witness ==
    /\ \E u \in Users : participants[<<"EPL-1", u>>].has_withdrawn
    /\ result = Call("withdraw", "AlreadyWithdrawn")

----------------------------------------------------------------------------
(* C4 *)

\* C4: the escrow, net of the rent reserve, is total_pool before resolution and
\* total_pool - creatorFee - platformFee - reward * (winners paid) after it.
C4_Conservation ==
    \A m \in Markets : MarketExists(m) =>
        Escrow(m) =
            IF ~Resolved(m) THEN markets[m].total_pool
            ELSE markets[m].total_pool
                   - creator_fee(markets[m].total_pool)
                   - platform_fee(markets[m].total_pool)
                   - (IF Paid(m) = {} THEN 0 ELSE RewardOf(m) * Cardinality(Paid(m)))

----------------------------------------------------------------------------
(* C5 *)

\* C5: in every resolved state the withdraw of every winner who has not
\* withdrawn succeeds, and no withdraw and no resolve fails for lack of funds
\* in the escrow.
C5_WinnersPaid ==
    /\ result.err \notin FundsErrors
    /\ \A m \in Markets : MarketExists(m) =>
        /\ \A u \in Users :
             /\ WithdrawResult(m, u).err \notin FundsErrors
             /\ (Resolved(m) /\ u \in Winners(m) \ Paid(m)) =>
                    WithdrawResult(m, u).err = "Ok"
        /\ \A resolver \in Users, platform \in PlatformAccounts(m),
              outcome \in MatchOutcome :
             \A presented \in Presentable(m, resolver) :
             ResolveResult(m, resolver, markets[m].creator, presented,
                           platform, outcome).err \notin FundsErrors

\* Of two winners one has withdrawn and the other has not
C5_Witness ==
    /\ result = Call("withdraw", "Ok")
    /\ \E u, v \in Winners("EPL-1") :
         u \in Paid("EPL-1") /\ v \notin Paid("EPL-1")

----------------------------------------------------------------------------
(* C6 *)

\* The prize pool of the resolved market m with each fee floored on its own,
\* as resolve_market and withdraw_rewards compute the fees
NetOfFees(m) ==
    markets[m].total_pool
      - (markets[m].total_pool * CREATOR_FEE_BPS) \div BPS_DENOMINATOR
      - (markets[m].total_pool * PLATFORM_FEE_BPS) \div BPS_DENOMINATOR

\* The prize pool of the resolved market m with the two fees floored together
NetOfFeesJointFloor(m) ==
    (markets[m].total_pool * (BPS_DENOMINATOR - CREATOR_FEE_BPS - PLATFORM_FEE_BPS))
        \div BPS_DENOMINATOR

HasWinners(m) == Resolved(m) /\ winner_count(markets[m], markets[m].outcome) > 0

\* C6 as claimed: R * W <= floor(P * (10000 - c - p) / 10000)
C6_RewardFloor ==
    \A m \in Markets : HasWinners(m) =>
        RewardOf(m) * winner_count(markets[m], markets[m].outcome)
            <= NetOfFeesJointFloor(m)

C6_State ==
    \A m \in Markets : HasWinners(m) =>
        LET W == winner_count(markets[m], markets[m].outcome)
        IN  /\ RewardOf(m) # None
            /\ RewardOf(m) * W <= NetOfFees(m)
            /\ NetOfFees(m) - RewardOf(m) * W < W

C6_Step ==
    \A m \in Markets, u \in Users :
        (result' = Call("withdraw", "Ok") /\ lamports'[u] # lamports[u]) =>
            LET W == winner_count(markets[m], markets[m].outcome)
                R == lamports'[u] - lamports[u]
            IN  /\ R = lamports[m] - lamports'[m]
                /\ R * W <= NetOfFees(m)
                /\ NetOfFees(m) - R * W < W

\* C6 (amended): with the program's fee schedule (200, 300) bps and W > 0
\* winners, the reward R that withdraw computes and transfers satisfies
\* R * W <= P - floor(P * 200 / 10000) - floor(P * 300 / 10000), and what is
\* left of that prize pool after W rewards is less than W.
C6_RewardBound == []C6_State /\ [][C6_Step]_vars

\* A winner of three was paid from a prize pool that leaves a remainder of 2
\* and is larger than the jointly floored one
C6_Witness ==
    /\ result = Call("withdraw", "Ok")
    /\ winner_count(markets["EPL-1"], markets["EPL-1"].outcome) = 3
    /\ NetOfFees("EPL-1") - RewardOf("EPL-1") * 3 = 2
    /\ NetOfFeesJointFloor("EPL-1") < NetOfFees("EPL-1")

----------------------------------------------------------------------------
(* C7 *)

Losers(m) == Records(m) \ Winners(m)

C7_State ==
    \A m \in Markets, u \in Users :
        (Resolved(m) /\ u \in Losers(m)) =>
            /\ WithdrawResult(m, u).err = "NotAWinner"
            /\ ~participants[<<m, u>>].has_withdrawn

C7_Step ==
    \A m \in Markets :
        /\ result' = Call("withdraw", "NotAWinner") =>
             UNCHANGED <<markets, participants, lamports>>
        /\ \A u \in Users :
             (Resolved(m) /\ u \in Losers(m) /\ result'.op = "withdraw") =>
                 /\ lamports'[u] = lamports[u]
                 /\ participants'[<<m, u>>] = participants[<<m, u>>]

\* C7: in every resolved state the withdraw of a participant whose prediction
\* is not the outcome fails with NotAWinner; a withdraw that fails so changes
\* no balance and no record, and no withdraw changes the balance or the
\* has_withdrawn flag of such a participant.
C7_NotAWinner == []C7_State /\ [][C7_Step]_vars

\* A loser's withdraw was rejected after a winner had been paid
C7_Witness ==
    /\ result = Call("withdraw", "NotAWinner")
    /\ Paid("EPL-1") # {}
    /\ Losers("EPL-1") # {}

----------------------------------------------------------------------------
(* C8 *)

C8_State ==
    \A m \in Markets, u \in Users, prediction \in MatchOutcome :
        ParticipantExists(m, u) =>
            JoinResult(m, u, prediction).err = "AccountInUse"

C8_Step ==
    \A m \in Markets :
        /\ \A u \in Users :
             ParticipantExists(m, u) =>
                 /\ ParticipantExists(m, u)'
                 /\ participants'[<<m, u>>].prediction = participants[<<m, u>>].prediction
                 /\ participants'[<<m, u>>].joined_at = participants[<<m, u>>].joined_at
                 /\ result'.op = "join" =>
                      /\ lamports'[u] = lamports[u]
                      /\ participants'[<<m, u>>] = participants[<<m, u>>]
        /\ (result'.op = "join" /\ result'.err # "Ok") =>
             UNCHANGED <<markets, participants, lamports>>
        /\ result' = Call("join", "Ok") =>
             /\ Cardinality(Records(m)') = Cardinality(Records(m)) + 1
             /\ markets'[m].total_pool = markets[m].total_pool + markets[m].entry_fee
             /\ markets'[m].participant_count = markets[m].participant_count + 1

\* C8: a join by a user who has a Participant record of the market fails (the
\* account is in use); the record of a user stays as the first join wrote it,
\* a join changes neither the balance nor the record of a user who has one, a
\* failed join changes nothing, and a join that succeeds adds exactly one
\* record, one entry fee to total_pool and one to participant_count.
C8_OneParticipant == []C8_State /\ [][C8_Step]_vars

\* A user who had joined tried to join again while the market was open
C8_Witness ==
    /\ result = Call("join", "AccountInUse")
    /\ markets["EPL-1"].status = "Open"
    /\ now < markets["EPL-1"].kickoff_time
    /\ Records("EPL-1") # {}

----------------------------------------------------------------------------
(* C9 *)

AuthorizationErrors == {"UnauthorizedResolver", "ConstraintSeeds", "AccountNotInitialized"}

----------------------------------------------------------------------------
(* C10 *)

\* C10 as claimed: every resolve attempted before end_time fails with the
\* not-ended error (here for the calls that pass the right creator account and
\* no participant account).
C10_AlwaysNotEnded ==
    \A m \in Markets, resolver \in Users :
        (MarketExists(m) /\ now < markets[m].end_time) =>
            ResolveEarly(m, resolver, markets[m].creator, <<>>) = "MarketNotEnded"

C10_State ==
    \A m \in Markets : (MarketExists(m) /\ now < markets[m].end_time) =>
        /\ markets[m].status = "Open"
        /\ markets[m].outcome = NoOutcome
        /\ \A resolver \in Users :
             \A creator \in CreatorAccounts(m), presented \in Presentable(m, resolver) :
                /\ ResolveEarly(m, resolver, creator, presented)
                     \in {"MarketNotEnded", "UnauthorizedResolver",
                          "InvalidCreator", "ConstraintSeeds", "AccountNotInitialized"}
                /\ Authorized(m, resolver, creator, presented) =>
                     ResolveEarly(m, resolver, creator, presented) = "MarketNotEnded"

C10_Step ==
    \A m \in Markets :
        /\ result' = Call("resolve", "Ok") => now >= markets[m].end_time
        /\ (MarketExists(m) /\ now < markets[m].end_time /\ result'.op = "resolve") =>
             /\ result'.err # "Ok"
             /\ UNCHANGED <<markets, participants, lamports>>

\* C10 (amended): a resolve succeeds only when now >= end_time; while
\* now < end_time the market is Open with no outcome and every resolve fails,
\* with the not-ended error when it passes the account validation and the
\* authorization check and with their error otherwise, and changes nothing.
C10_Deadline == []C10_State /\ [][C10_Step]_vars

\* The creator's resolve was rejected after kickoff and before end_time, on a
\* market with participants
C10_Witness ==
    /\ result = Call("resolve", "MarketNotEnded")
    /\ Records("EPL-1") # {}
    /\ now >= markets["EPL-1"].kickoff_time
    /\ now < markets["EPL-1"].end_time

----------------------------------------------------------------------------
(* C11 *)

\* The market m takes no join: it is not Open or its kickoff time has come
JoinClosed(m) ==
    MarketExists(m) /\ (markets[m].status # "Open" \/ now >= markets[m].kickoff_time)

C11_State ==
    \A m \in Markets, u \in Users, prediction \in MatchOutcome :
        JoinClosed(m) =>
            LET r == JoinResult(m, u, prediction)
            IN  /\ r.err \in {"MarketNotOpen", "MarketAlreadyStarted",
                              "AccountInUse", "InsufficientLamports"}
                /\ (~ParticipantExists(m, u) /\ lamports[u] >= ParticipantRent) =>
                     r.err = IF markets[m].status # "Open" THEN "MarketNotOpen"
                             ELSE "MarketAlreadyStarted"

C11_Step ==
    \A m \in Markets :
        /\ result' = Call("join", "Ok") =>
             markets[m].status = "Open" /\ now < markets[m].kickoff_time
        /\ (JoinClosed(m) /\ result'.op = "join") =>
             /\ result'.err # "Ok"
             /\ UNCHANGED <<markets, participants, lamports>>

\* C11: a join succeeds only when status = Open and now < kickoff_time; on a
\* market that is not Open or at now >= kickoff_time every join fails (with
\* MarketNotOpen or MarketAlreadyStarted for a user without a record), and
\* the failed join changes no balance, no Participant and no market field.
C11_JoinPreconditions == []C11_State /\ [][C11_Step]_vars

\* A user without a record tried to join an Open market at its kickoff time
C11_Witness ==
    /\ result = Call("join", "MarketAlreadyStarted")
    /\ markets["EPL-1"].status = "Open"
    /\ now = markets["EPL-1"].kickoff_time
    /\ Records("EPL-1") # {} /\ Records("EPL-1") # Users

----------------------------------------------------------------------------
(* C12 *)

\* floor(total_pool * bps / 10000) of the market m
FeeOf(m, bps) == (markets[m].total_pool * bps) \div BPS_DENOMINATOR

\* The balances L after `amount` has moved from the account `from` to `to`
Moved(L, from, to, amount) ==
    [a \in DOMAIN L |->
        CASE a = from /\ a = to -> L[a]
          [] a = from -> L[a] - amount
          [] a = to -> L[a] + amount
          [] OTHER -> L[a]]

\* C12: a successful resolve debits exactly creatorFee + platformFee =
\* floor(total_pool * 200 / 10000) + floor(total_pool * 300 / 10000) from the
\* escrow, credits creatorFee to the creator and platformFee to the platform
\* account, sets status = Resolved and outcome = Some(outcome), and changes
\* neither total_pool nor any counter.
C12_ResolveFees ==
    [][\A m \in Markets :
        result' = Call("resolve", "Ok") =>
            /\ lamports'[m] = lamports[m] - (FeeOf(m, CREATOR_FEE_BPS)
                                              + FeeOf(m, PLATFORM_FEE_BPS))
            /\ \E platform \in Accounts :
                 lamports' = Moved(Moved(lamports, m, markets[m].creator,
                                         FeeOf(m, CREATOR_FEE_BPS)),
                                   m, platform, FeeOf(m, PLATFORM_FEE_BPS))
            /\ markets'[m] = [markets[m] EXCEPT !.status = "Resolved",
                                                !.outcome = markets'[m].outcome]
            /\ markets'[m].outcome \in MatchOutcome]_vars

----------------------------------------------------------------------------
(* C13 *)

\* The market m was joined at entry fee 100 with predictions Home, Home, Draw
\* and resolved with outcome Home
Scenario(m) ==
    /\ Resolved(m)
    /\ markets[m].entry_fee = 100
    /\ markets[m].home_count = 2
    /\ markets[m].draw_count = 1
    /\ markets[m].away_count = 0
    /\ markets[m].outcome = "Home"

\* C13: in the scenario (pool 300, outcome Home) creatorFee = 3,
\* platformFee = 3, totalFees = 6, prizePool = 294, winner_count = 2 and
\* reward = 147 with remainder 0; a Home predictor who has not withdrawn can
\* withdraw and the Draw predictor's withdraw fails with NotAWinner.
C13_Scenario ==
    \A m \in Markets : Scenario(m) =>
        /\ markets[m].total_pool = 300
        /\ creator_fee(markets[m].total_pool) = 3
        /\ platform_fee(markets[m].total_pool) = 3
        /\ total_fees(markets[m].total_pool) = 6
        /\ prize_pool(markets[m].total_pool) = 294
        /\ winner_count(markets[m], markets[m].outcome) = 2
        /\ RewardOf(m) = 147
        /\ prize_pool(markets[m].total_pool) - RewardOf(m) * 2 = 0
        /\ \A u \in Winners(m) \ Paid(m) : WithdrawResult(m, u).err = "Ok"
        /\ \A u \in Losers(m) : WithdrawResult(m, u).err = "NotAWinner"

----------------------------------------------------------------------------
(* C14 *)

\* The market m is resolved to an outcome nobody predicted
NoWinner(m) == Resolved(m) /\ winner_count(markets[m], markets[m].outcome) = 0

\* C14 as claimed: with winner_count = 0 every withdraw by every participant
\* fails with NoWinners.
C14_FailsNoWinners ==
    \A m \in Markets, u \in Users :
        (NoWinner(m) /\ ParticipantExists(m, u)) =>
            WithdrawResult(m, u).err = "NoWinners"

C14_State ==
    /\ result.err # "NoWinners"
    /\ \A m \in Markets, u \in Users :
         /\ WithdrawResult(m, u).err # "NoWinners"
         /\ (NoWinner(m) /\ ParticipantExists(m, u)) =>
              WithdrawResult(m, u).err = "NotAWinner"

C14_Step ==
    \A m \in Markets : NoWinner(m) =>
        /\ lamports'[m] = lamports[m]
        /\ result'.op = "withdraw" =>
             /\ result'.err # "Ok"
             /\ UNCHANGED <<markets, participants, lamports>>

\* C14 (amended): in a market resolved to an outcome nobody predicted every
\* withdraw by every participant fails with NotAWinner (the NoWinners check is
\* never the one that fails), no withdraw succeeds and no step changes the
\* escrow balance left after resolution.
C14_NoWinnerBoundary == []C14_State /\ [][C14_Step]_vars

\* A participant's withdraw was rejected in a market with participants that
\* was resolved to an outcome nobody predicted
C14_Witness ==
    /\ NoWinner("EPL-1")
    /\ Cardinality(Records("EPL-1")) >= 2
    /\ result = Call("withdraw", "NotAWinner")

----------------------------------------------------------------------------
(* C15 *)

\* Every winner of the resolved market m has withdrawn
AllPaid(m) == Resolved(m) /\ Winners(m) = Paid(m)

\* prizePool - reward * winner_count of the resolved market m
Remainder(m) ==
    LET W == winner_count(markets[m], markets[m].outcome)
    IN  prize_pool(markets[m].total_pool) - (IF W = 0 THEN 0 ELSE RewardOf(m) * W)

C15_State == \A m \in Markets : AllPaid(m) => Escrow(m) = Remainder(m)

C15_Step == \A m \in Markets : AllPaid(m) => lamports'[m] = lamports[m]

\* C15: once every winner of a resolved market has withdrawn, the escrow (net
\* of rent) holds exactly prizePool - reward * winner_count, and no later
\* step changes the escrow balance.
C15_Remainder == []C15_State /\ [][C15_Step]_vars

----------------------------------------------------------------------------
(* C16 *)

C16_State ==
    \A m \in MarketKeys : MarketExists(m) =>
        /\ markets[m].outcome \in MatchOutcome \cup {NoOutcome}
        /\ markets[m].outcome # NoOutcome <=> markets[m].status = "Resolved"

C16_Step ==
    \A m \in MarketKeys :
        (MarketExists(m) /\ markets[m].outcome # NoOutcome) =>
            markets'[m].outcome = markets[m].outcome

\* C16: in every reachable state of a market the outcome is Some(_) if and
\* only if status = Resolved, and no step changes an outcome that is set.
C16_OutcomeIffResolved == []C16_State /\ [][C16_Step]_vars

\* The market was resolved to Draw and a later resolve was rejected
C16_Witness ==
    /\ markets["EPL-1"].status = "Resolved"
    /\ markets["EPL-1"].outcome = "Draw"
    /\ result = Call("resolve", "MarketAlreadyResolved")

----------------------------------------------------------------------------
(* C17 *)

C17_State ==
    \A m \in MarketKeys : MarketExists(m) => markets[m].status \in {"Open", "Resolved"}

C17_Step ==
    \A m \in MarketKeys :
        /\ (~MarketExists(m) /\ MarketExists(m)') =>
             /\ markets'[m].status = "Open"
             /\ result' = Call("initialize", "Ok")
        /\ MarketExists(m) => MarketExists(m)'
        /\ (MarketExists(m) /\ markets'[m].status # markets[m].status) =>
             /\ markets[m].status = "Open"
             /\ markets'[m].status = "Resolved"
             /\ result' = Call("resolve", "Ok")
        /\ Resolved(m) => markets'[m].status = "Resolved"

\* C17: a market's status starts Open, its only transition is Open ->
\* Resolved (made by a successful resolve), Resolved is never left, a market
\* is never deleted or initialized again, and Live and Cancelled are never
\* reached.
C17_Lifecycle == []C17_State /\ [][C17_Step]_vars

\* An initialize for the match id of a market that is Resolved was rejected
C17_Witness ==
    /\ Resolved("EPL-1")
    /\ result = Call("initialize", "AccountInUse")

----------------------------------------------------------------------------
(* C18 *)

\* The error of an initialize ("Ok" if it succeeds): the account validation,
\* then the handler
InitializeResult(id, creator, entry_fee, kickoff_time, end_time) ==
    IF InitializeMarket(id, creator) # "Ok" THEN InitializeMarket(id, creator)
    ELSE initialize_market(creator, id, entry_fee, kickoff_time, end_time, now).err

\* The preconditions of initialize
ValidInitialize(id, entry_fee, kickoff_time, end_time) ==
    /\ MatchIdLen(id) > 0
    /\ MatchIdLen(id) <= MAX_MATCH_ID_LEN
    /\ entry_fee > 0
    /\ kickoff_time > now
    /\ end_time > kickoff_time

\* C18: for every non-empty match id of at most 64 bytes (no market has yet),
\* entry fee > 0, kickoff > now and end > kickoff, initialize (by a creator
\* who can pay the rent) succeeds and yields a market with status = Open,
\* outcome = None, total_pool = 0 and all counters 0; if a precondition is
\* violated initialize fails.
C18_Initialize ==
    \A id \in MatchIds, creator \in Creators, entry_fee \in EntryFees,
       kickoff_time \in KickoffTimes, end_time \in EndTimes :
        LET err == InitializeResult(id, creator, entry_fee, kickoff_time, end_time)
            mkt == initialize_market(creator, id, entry_fee, kickoff_time,
                                     end_time, now).market
        IN  /\ ~ValidInitialize(id, entry_fee, kickoff_time, end_time) => err # "Ok"
            /\ (ValidInitialize(id, entry_fee, kickoff_time, end_time)
                  /\ ~MarketExists(id) /\ lamports[creator] >= MarketRent) =>
                 /\ err = "Ok"
                 /\ mkt.status = "Open" /\ mkt.outcome = NoOutcome
                 /\ mkt.total_pool = 0 /\ mkt.participant_count = 0
                 /\ mkt.home_count = 0 /\ mkt.draw_count = 0 /\ mkt.away_count = 0

----------------------------------------------------------------------------
(* C19 *)

\* The market mkt after a join with the prediction: every increment made
Joined(mkt, prediction) ==
    [mkt EXCEPT !.total_pool = @ + mkt.entry_fee,
                !.participant_count = @ + 1,
                !.home_count = IF prediction = "Home" THEN @ + 1 ELSE @,
                !.draw_count = IF prediction = "Draw" THEN @ + 1 ELSE @,
                !.away_count = IF prediction = "Away" THEN @ + 1 ELSE @]

\* The step is a join of m by u with the prediction that did all it does
JoinedWhole(m, u, prediction) ==
    /\ ~ParticipantExists(m, u)
    /\ participants' = [participants EXCEPT ![<<m, u>>] =
                          [initialized |-> TRUE, market |-> m, user |-> u,
                           prediction |-> prediction, joined_at |-> now,
                           has_withdrawn |-> FALSE]]
    /\ lamports' = [lamports EXCEPT
                      ![u] = @ - ParticipantRent - markets[m].entry_fee,
                      ![m] = @ + markets[m].entry_fee]
    /\ markets' = [markets EXCEPT ![m] = Joined(markets[m], prediction)]

C19_Step ==
    result'.op = "join" =>
        \/ /\ result'.err # "Ok"
           /\ UNCHANGED <<markets, participants, lamports>>
        \/ /\ result'.err = "Ok"
           /\ \E m \in Markets, u \in Users, prediction \in MatchOutcome :
                JoinedWhole(m, u, prediction)

\* C19: a join either succeeds and does all of it (the entry fee moves from
\* the user to the escrow, the Participant is created, total_pool,
\* participant_count and the prediction's counter are incremented) or fails
\* and leaves every balance, every Participant and every market field as it
\* was, whatever step it failed at.
C19_JoinAtomic == [][C19_Step]_vars

\* A join failed on the participant counter, after the transfer of the entry
\* fee and the increment of total_pool
C19_Witness ==
    /\ result = Call("join", "ParticipantOverflow")
    /\ markets["EPL-1"].participant_count = U32Max
    /\ lamports["EPL-1"] = MarketRent + markets["EPL-1"].total_pool

----------------------------------------------------------------------------
(* C20 *)

\* The accounts as they are now
Ledger == [markets |-> markets, participants |-> participants, lamports |-> lamports]

\* A join made on the accounts S: its error and the accounts after it (S
\* itself if it fails)
JoinOn(S, m, user, prediction) ==
    LET check ==
            IF S.markets[m].status = "Uninitialized" THEN "AccountNotInitialized"
            ELSE IF S.participants[<<m, user>>].initialized THEN "AccountInUse"
            ELSE IF S.lamports[user] < ParticipantRent THEN "InsufficientLamports"
            ELSE "Ok"
        paid == [S.lamports EXCEPT ![user] = @ - ParticipantRent]
        r == join_market(S.markets[m], m, S.participants[<<m, user>>], paid,
                         user, prediction, now)
    IN  IF check # "Ok" THEN [err |-> check, state |-> S]
        ELSE IF r.err # "Ok" THEN [err |-> r.err, state |-> S]
        ELSE [err |-> "Ok",
              state |-> [markets |-> [S.markets EXCEPT ![m] = r.market],
                         participants |->
                             [S.participants EXCEPT ![<<m, user>>] = r.participant],
                         lamports |-> r.lamports]]

C20_State ==
    \A m \in Markets, u \in Users, v \in Users, p \in MatchOutcome, q \in MatchOutcome :
        LET a == JoinOn(Ledger, m, u, p)
            ab == JoinOn(a.state, m, v, q)
            b == JoinOn(Ledger, m, v, q)
            ba == JoinOn(b.state, m, u, p)
        IN  (MarketExists(m) /\ u # v /\ a.err = "Ok" /\ ab.err = "Ok") =>
                /\ b.err = "Ok"
                /\ ba.err = "Ok"
                /\ ba.state = ab.state

C20_Step ==
    /\ result' = Call("join", "Ok") =>
         \E m \in Markets, u \in Users, p \in MatchOutcome :
            /\ JoinOn(Ledger, m, u, p).err = "Ok"
            /\ JoinOn(Ledger, m, u, p).state = Ledger'
    /\ (result'.op = "join" /\ result'.err # "Ok") => Ledger' = Ledger

----------------------------------------------------------------------------
(* C21 *)

C21_Step ==
    \A m \in Markets : MarketExists(m) =>
        lamports'[m] - lamports[m] =
            CASE result' = Call("join", "Ok") -> markets[m].entry_fee
              [] result' = Call("resolve", "Ok") ->
                    0 - (FeeOf(m, CREATOR_FEE_BPS) + FeeOf(m, PLATFORM_FEE_BPS))
              [] result' = Call("withdraw", "Ok") ->
                    0 - RewardOf(m)
              [] OTHER -> 0

\* C21: the escrow balance of a market changes only by a successful join
\* (credit of exactly entry_fee), a successful resolve (debit of exactly
\* creatorFee + platformFee) and a successful withdraw (debit of exactly
\* reward); every other step, every failed join, resolve or withdraw among
\* them, leaves it unchanged.
C21_EscrowFrame == [][C21_Step]_vars

----------------------------------------------------------------------------
(* C22 *)

\* Arithmetic at the limits: the markets of InitJoin, whose pool and counts
\* reach the largest values, joined, resolved by their creator and
\* withdrawn from.
NextArith ==
    \/ \E m \in Markets, user \in Users, prediction \in MatchOutcome :
            Join(m, user, prediction)
    \/ \E m \in Markets, resolver \in Creators :
         \E creator \in CreatorAccounts(m), presented \in Presentable(m, resolver) :
            Resolve(m, resolver, creator, presented)
    \/ \E m \in Markets, user \in Users : Withdraw(m, user)
    \/ Tick

SpecArith == InitJoin /\ [][NextArith]_vars

\* the fee computed in the integers
ExactFee(m, bps) == (markets[m].total_pool * bps) \div BPS_DENOMINATOR

\* the reward computed in the integers
ExactReward(m) ==
    (markets[m].total_pool - ExactFee(m, CREATOR_FEE_BPS)
        - ExactFee(m, PLATFORM_FEE_BPS)) \div winner_count(markets[m], markets[m].outcome)

\* every stored number is within its width (the lamports of an account are
\* bounded by the supply, which the runtime keeps below the width)
C22_State ==
    /\ \A a \in Accounts : lamports[a] >= 0
    /\ \A m \in Markets :
        /\ markets[m].total_pool \in 0..U64Max
        /\ markets[m].participant_count \in 0..U32Max
        /\ \A o \in MatchOutcome : winner_count(markets[m], o) \in 0..U32Max

C22_Step ==
    \A m \in Markets :
        /\ result'.op \in {"join", "resolve", "withdraw"} /\ result'.err # "Ok"
            => UNCHANGED <<markets, participants, lamports>>
        /\ result' = Call("join", "Ok") =>
            /\ markets'[m].total_pool = markets[m].total_pool + markets[m].entry_fee
            /\ markets'[m].participant_count = markets[m].participant_count + 1
            /\ \E o \in MatchOutcome :
                /\ winner_count(markets'[m], o) = winner_count(markets[m], o) + 1
                /\ \A p \in MatchOutcome \ {o} :
                    winner_count(markets'[m], p) = winner_count(markets[m], p)
            /\ lamports'[m] = lamports[m] + markets[m].entry_fee
        /\ result' = Call("resolve", "Ok") =>
            /\ markets[m].total_pool * CREATOR_FEE_BPS <= U64Max
            /\ markets[m].total_pool * PLATFORM_FEE_BPS <= U64Max
            /\ \E platform \in PlatformAccounts(m) :
                lamports' = Moved(Moved(lamports, m, markets[m].creator,
                                        ExactFee(m, CREATOR_FEE_BPS)),
                                  m, platform, ExactFee(m, PLATFORM_FEE_BPS))
        /\ result' = Call("withdraw", "Ok") =>
            \E user \in Users :
                lamports' = Moved(lamports, m, user, ExactReward(m))

\* C22: every addition, subtraction, multiplication and division of join,
\* resolve and withdraw, the product total_pool * fee_bps included, either
\* gives the exact result in the integers or aborts the whole operation
\* with no change of state; every stored number stays within its width.
C22_OverflowSafe == [] C22_State /\ [][C22_Step]_vars

\* a resolve was aborted because total_pool * fee_bps overflows
C22_Witness ==
    /\ result = Call("resolve", "Panic")
    /\ markets["EPL-1"].total_pool * PLATFORM_FEE_BPS > U64Max
    /\ markets["EPL-1"].status = "Open"

----------------------------------------------------------------------------
(* The factory program (programs/factory/src/lib.rs): the factory account   *)
(* and one registry record per match id.                                    *)

\* require!(platform_fee_bps <= 1000, ..)
MAX_PLATFORM_FEE_BPS == 1000

\* rent of a Factory and of a MarketRegistry account
FactoryRent == 1
RegistryRent == 1

RegistryExists(id) == id \in RegistryKeys /\ market_registry[id].initialized

\* initialize_factory with the bound of the platform fee off by one hundred
initialize_factory_LooseFee(authority, platform_fee_bps) ==
    [err |-> IF ~(platform_fee_bps <= MAX_PLATFORM_FEE_BPS + 100)
             THEN "InvalidPlatformFee" ELSE "Ok",
     factory |-> [initialized |-> TRUE, authority |-> authority,
                  market_count |-> 0, platform_fee_bps |-> platform_fee_bps]]

initialize_factory(authority, platform_fee_bps) ==
    [err |-> IF ~(platform_fee_bps <= MAX_PLATFORM_FEE_BPS)
             THEN "InvalidPlatformFee" ELSE "Ok",
     factory |-> [initialized |-> TRUE, authority |-> authority,
                  market_count |-> 0, platform_fee_bps |-> platform_fee_bps]]

\* create_market that leaves market_count as it is
create_market_NoCount(fac, id, entry_fee, kickoff_time, end_time, is_public, creator, market_account, t) ==
    [err |-> IF MatchIdLen(id) = 0 THEN "InvalidMatchId"
             ELSE IF ~(MatchIdLen(id) <= MAX_MATCH_ID_LEN) THEN "MatchIdTooLong"
             ELSE IF ~(entry_fee > 0) THEN "ZeroEntryFee"
             ELSE IF ~(kickoff_time > t) THEN "InvalidKickoffTime"
             ELSE IF ~(end_time > kickoff_time) THEN "InvalidEndTime"
             ELSE "Ok",
     factory |-> fac,
     registry |-> [initialized |-> TRUE, market_address |-> market_account,
                   creator |-> creator, created_at |-> t,
                   is_public |-> is_public, entry_fee |-> entry_fee,
                   kickoff_time |-> kickoff_time, end_time |-> end_time]]

create_market(fac, id, entry_fee, kickoff_time, end_time, is_public, creator, market_account, t) ==
    LET count == checked_add(fac.market_count, 1, U64Max)
    IN  [err |-> IF MatchIdLen(id) = 0 THEN "InvalidMatchId"
                 ELSE IF ~(MatchIdLen(id) <= MAX_MATCH_ID_LEN) THEN "MatchIdTooLong"
                 ELSE IF ~(entry_fee > 0) THEN "ZeroEntryFee"
                 ELSE IF ~(kickoff_time > t) THEN "InvalidKickoffTime"
                 ELSE IF ~(end_time > kickoff_time) THEN "InvalidEndTime"
                 ELSE IF count = None THEN "MarketCountOverflow"
                 ELSE "Ok",
         factory |-> [fac EXCEPT !.market_count = count],
         registry |-> [initialized |-> TRUE, market_address |-> market_account,
                       creator |-> creator, created_at |-> t,
                       is_public |-> is_public, entry_fee |-> entry_fee,
                       kickoff_time |-> kickoff_time, end_time |-> end_time]]

\* init of the factory PDA, seeds ("factory"), payer = authority
InitializeFactory(authority) ==
    IF factory.initialized THEN "AccountInUse"
    ELSE IF lamports[authority] < FactoryRent THEN "InsufficientLamports"
    ELSE "Ok"

\* the factory account, then init of the registry PDA, seeds
\* ("market_registry", factory, match_id), payer = creator
CreateMarket(id, creator) ==
    IF ~factory.initialized THEN "AccountNotInitialized"
    ELSE IF MatchIdLen(id) > MAX_SEED_LEN THEN "MaxSeedLengthExceeded"
    ELSE IF RegistryExists(id) THEN "AccountInUse"
    ELSE IF lamports[creator] < RegistryRent THEN "InsufficientLamports"
    ELSE "Ok"

\* A failed transaction of the factory or of the dashboard
RejectedCall(call) ==
    /\ result' = call
    /\ UNCHANGED <<now, markets, participants, lamports>>
    /\ UNCHANGED collaborators

PlatformFees == {0, 300, MAX_PLATFORM_FEE_BPS, MAX_PLATFORM_FEE_BPS + 1}
RegistryFees == {0, 1}
MarketAddresses == {"EPL-1", "u2"}

FactoryInitialize(authority) ==
    LET check == InitializeFactory(authority)
    IN  IF check # "Ok" THEN RejectedCall(Call("initialize_factory", check))
        ELSE \E platform_fee_bps \in PlatformFees :
            LET r == initialize_factory(authority, platform_fee_bps)
            IN  IF r.err # "Ok" THEN RejectedCall(Call("initialize_factory", r.err))
                ELSE /\ result' = Call("initialize_factory", "Ok")
                     /\ factory' = r.factory
                     /\ lamports' = [lamports EXCEPT ![authority] = @ - FactoryRent]
                     /\ UNCHANGED <<now, markets, participants,
                                    market_registry, user_stats>>

FactoryCreate(id, creator) ==
    LET check == CreateMarket(id, creator)
    IN  IF check # "Ok" THEN RejectedCall(Call("create_market", check))
        ELSE \E entry_fee \in RegistryFees, kickoff_time \in KickoffTimes,
                end_time \in EndTimes, is_public \in BOOLEAN,
                market_account \in MarketAddresses :
            LET r == create_market(factory, id, entry_fee, kickoff_time, end_time,
                                   is_public, creator, market_account, now)
            IN  IF r.err # "Ok" THEN RejectedCall(Call("create_market", r.err))
                ELSE /\ result' = Call("create_market", "Ok")
                     /\ factory' = r.factory
                     /\ market_registry' = [market_registry EXCEPT ![id] = r.registry]
                     /\ lamports' = [lamports EXCEPT ![creator] = @ - RegistryRent]
                     /\ UNCHANGED <<now, markets, participants, user_stats>>

NextFactory ==
    \/ \E authority \in {"u1", "u2"} : FactoryInitialize(authority)
    \/ \E id \in MatchIds, creator \in {"u1", "u3"} : FactoryCreate(id, creator)
    \/ Tick

SpecFactory == Init /\ [][NextFactory]_vars

----------------------------------------------------------------------------
(* C23 *)

\* the registry records of the factory
Registered == {id \in RegistryKeys : RegistryExists(id)}

\* parameters that create_market must refuse
InvalidCreate(id, entry_fee, kickoff_time, end_time) ==
    \/ MatchIdLen(id) = 0
    \/ MatchIdLen(id) > MAX_MATCH_ID_LEN
    \/ entry_fee = 0
    \/ kickoff_time <= now
    \/ end_time <= kickoff_time

C23_State ==
    /\ factory.market_count = Cardinality(Registered)
    /\ \A id \in Registered, creator \in Users : CreateMarket(id, creator) # "Ok"
    /\ \A id \in MatchIds, entry_fee \in RegistryFees, kickoff_time \in KickoffTimes,
          end_time \in EndTimes :
        InvalidCreate(id, entry_fee, kickoff_time, end_time) =>
            create_market(factory, id, entry_fee, kickoff_time, end_time,
                          TRUE, "u1", "EPL-1", now).err # "Ok"

C23_Step ==
    /\ factory'.market_count >= factory.market_count
    /\ result' = Call("initialize_factory", "Ok") => factory'.market_count = 0
    /\ result' = Call("create_market", "Ok") =>
        /\ factory'.market_count = factory.market_count + 1
        /\ \E id \in RegistryKeys \ Registered :
            /\ RegistryExists(id)'
            /\ \A other \in RegistryKeys \ {id} :
                market_registry'[other] = market_registry[other]
    /\ result'.op = "create_market" /\ result'.err # "Ok" =>
        UNCHANGED <<factory, market_registry>>
    /\ result'.op # "create_market" => UNCHANGED market_registry

\* C23: the factory's market_count starts at 0, never decreases, grows by
\* exactly 1 with each successful create_market and so equals the number of
\* registry records; a create_market for a match id that is registered, or
\* with invalid parameters, fails and changes neither market_count nor a
\* record.
C23_MarketCount == []C23_State /\ [][C23_Step]_vars

\* a create_market for a registered match id was refused after two were registered
C23_Witness ==
    /\ result = Call("create_market", "AccountInUse")
    /\ factory.market_count = 2
    /\ Cardinality(Registered) = 2

----------------------------------------------------------------------------
(* C24 *)

\* The factory next to the markets it is the ceiling of: the markets of
\* InitJoin, joined and resolved by their creator, and initialize_factory.
NextCeiling ==
    \/ \E authority \in {"u2"} : FactoryInitialize(authority)
    \/ \E m \in Markets, user \in Users, prediction \in MatchOutcome :
            Join(m, user, prediction)
    \/ \E m \in Markets, resolver \in Creators :
         \E creator \in CreatorAccounts(m), presented \in Presentable(m, resolver) :
            Resolve(m, resolver, creator, presented)
    \/ Tick

SpecCeiling == InitJoin /\ [][NextCeiling]_vars

C24_State ==
    /\ factory.platform_fee_bps <= MAX_PLATFORM_FEE_BPS
    /\ \A authority \in Users, platform_fee_bps \in PlatformFees :
        platform_fee_bps > MAX_PLATFORM_FEE_BPS =>
            initialize_factory(authority, platform_fee_bps).err = "InvalidPlatformFee"

C24_Step ==
    /\ result'.op = "initialize_factory" /\ result'.err # "Ok" =>
        UNCHANGED <<factory, lamports>>
    /\ \A m \in Markets : result' = Call("resolve", "Ok") =>
        /\ lamports[m] - lamports'[m] <= FeeOf(m, MAX_PLATFORM_FEE_BPS)
        /\ \E platform \in PlatformAccounts(m) :
            lamports' = Moved(Moved(lamports, m, markets[m].creator,
                                    FeeOf(m, CREATOR_FEE_BPS)),
                              m, platform, FeeOf(m, PLATFORM_FEE_BPS))
        /\ FeeOf(m, CREATOR_FEE_BPS) + FeeOf(m, PLATFORM_FEE_BPS)
              <= FeeOf(m, MAX_PLATFORM_FEE_BPS)

\* C24: initialize_factory with platform_fee_bps above 1000 fails and
\* creates no factory, so the factory's platform_fee_bps is at most 1000 in
\* every reachable state; and the fees a market charges at resolve are at
\* most 10% (1000 bps) of its pool.
C24_FeeCeiling == []C24_State /\ [][C24_Step]_vars

\* an initialize_factory above the ceiling was refused, next to a market
\* that has charged its fees
C24_Witness ==
    /\ result = Call("initialize_factory", "InvalidPlatformFee")
    /\ ~factory.initialized
    /\ markets["EPL-1"].status = "Resolved"
    /\ markets["EPL-1"].total_pool > 0

----------------------------------------------------------------------------
(* The dashboard program (programs/dashboard/src/lib.rs): the statistics    *)
(* of a user.  i32 is modelled on the scaled word I32Min..I32Max and u32 on *)
(* 0..StatsU32Max, twice as wide, so that the casts between them are the    *)
(* casts of the source; u64 on 0..StatsU64Max.                              *)

I32Max == 3
StatsU64Max == 3
StatsRent == 1

I32Min == 0 - I32Max - 1
StatsU32Max == 2 * I32Max + 1

\* `x as i32` of a u32 and `x as u32` of an i32
as_i32(x) == IF x > I32Max THEN x - (StatsU32Max + 1) ELSE x
as_u32(x) == IF x < 0 THEN x + (StatsU32Max + 1) ELSE x

MarketResult == {"Win", "Loss"}

Max(a, b) == IF a >= b THEN a ELSE b

\* the streak after a Win and after a Loss, before the overflow check
StreakAfter(current_streak, market_result) ==
    IF market_result = "Win"
    THEN IF current_streak >= 0 THEN current_streak + 1 ELSE 1
    ELSE IF current_streak <= 0 THEN current_streak - 1 ELSE 0 - 1

\* BestAfter that keeps the best streak as it is
BestAfter_Kept(best_streak, streak) == best_streak

\* if current_streak > best_streak as i32 { best_streak = current_streak as u32 }
BestAfter(best_streak, streak) ==
    IF streak > as_i32(best_streak) THEN as_u32(streak) ELSE best_streak

update_user_stats(stats, market_result, amount_wagered, amount_won, t) ==
    LET streak == StreakAfter(stats.current_streak, market_result)
        win == market_result = "Win"
        err == IF stats.total_markets + 1 > StatsU32Max THEN "StatOverflow"
               ELSE IF stats.total_wagered + amount_wagered > StatsU64Max
                    THEN "StatOverflow"
               ELSE IF win /\ stats.wins + 1 > StatsU32Max THEN "StatOverflow"
               ELSE IF win /\ stats.total_won + amount_won > StatsU64Max
                    THEN "StatOverflow"
               ELSE IF ~win /\ stats.losses + 1 > StatsU32Max THEN "StatOverflow"
               ELSE IF streak > I32Max \/ streak < I32Min THEN "StatOverflow"
               ELSE "Ok"
    IN  [err |-> err,
         stats |-> [total_markets |-> stats.total_markets + 1,
                    wins |-> IF win THEN stats.wins + 1 ELSE stats.wins,
                    losses |-> IF win THEN stats.losses ELSE stats.losses + 1,
                    total_wagered |-> stats.total_wagered + amount_wagered,
                    total_won |-> IF win THEN stats.total_won + amount_won
                                  ELSE stats.total_won,
                    current_streak |-> streak,
                    best_streak |-> IF win THEN BestAfter(stats.best_streak, streak)
                                    ELSE stats.best_streak,
                    last_updated |-> t]]

\* init_if_needed of the user_stats PDA, seeds ("user_stats", user), payer =
\* user: the rent is due when the account does not exist yet
UpdateUserStats(user) ==
    IF user_stats[user].total_markets = 0 /\ lamports[user] < StatsRent
    THEN "InsufficientLamports"
    ELSE "Ok"

StatsUsers == {"u1"}
Amounts == {0, 2}

DashboardUpdate(user, market_result) ==
    LET check == UpdateUserStats(user)
    IN  IF check # "Ok" THEN RejectedCall(Call("update_user_stats", check))
        ELSE \E amount_wagered \in Amounts, amount_won \in Amounts :
            LET r == update_user_stats(user_stats[user], market_result,
                                       amount_wagered, amount_won, now)
            IN  IF r.err # "Ok" THEN RejectedCall(Call("update_user_stats", r.err))
                ELSE /\ result' = Call("update_user_stats", "Ok")
                     /\ user_stats' = [user_stats EXCEPT ![user] = r.stats]
                     /\ lamports' =
                          IF user_stats[user].total_markets = 0
                          THEN [lamports EXCEPT ![user] = @ - StatsRent]
                          ELSE lamports
                     /\ UNCHANGED <<now, markets, participants, factory,
                                    market_registry>>

NextDashboard ==
    \/ \E user \in StatsUsers, market_result \in MarketResult :
            DashboardUpdate(user, market_result)
    \/ Tick

SpecDashboard == Init /\ [][NextDashboard]_vars

----------------------------------------------------------------------------
(* C25 *)

\* the last call was a successful update that recorded market_result
Recorded(user, market_result) ==
    /\ result' = Call("update_user_stats", "Ok")
    /\ IF market_result = "Win"
       THEN user_stats'[user].wins = user_stats[user].wins + 1
       ELSE user_stats'[user].losses = user_stats[user].losses + 1

C25_Streak ==
    \A user \in StatsUsers :
        /\ Recorded(user, "Win") =>
            user_stats'[user].current_streak =
                IF user_stats[user].current_streak >= 0
                THEN user_stats[user].current_streak + 1 ELSE 1
        /\ Recorded(user, "Loss") =>
            user_stats'[user].current_streak =
                IF user_stats[user].current_streak <= 0
                THEN user_stats[user].current_streak - 1 ELSE 0 - 1
        /\ result'.op = "update_user_stats" /\ result'.err # "Ok" =>
            UNCHANGED user_stats

\* best_streak as the maximum of the streaks after the calls made so far:
\* the streak after the first call, from then on the larger of the maximum
\* before the call and the streak after it
C25_BestOfCalls ==
    \A user \in StatsUsers : result' = Call("update_user_stats", "Ok") =>
        user_stats'[user].best_streak =
            IF user_stats[user].total_markets = 0
            THEN user_stats'[user].current_streak
            ELSE Max(user_stats[user].best_streak, user_stats'[user].current_streak)

\* best_streak as the maximum of 0, the streak before any call, and the
\* streaks after the calls made so far
C25_BestFromZero ==
    \A user \in StatsUsers : result' = Call("update_user_stats", "Ok") =>
        user_stats'[user].best_streak =
            Max(user_stats[user].best_streak, user_stats'[user].current_streak)

\* C25 as stated: over any sequence of update_user_stats calls a Win sets
\* current_streak to current_streak + 1 if it was >= 0 and to 1 otherwise, a
\* Loss to current_streak - 1 if it was <= 0 and to -1 otherwise, and after
\* every call best_streak is the maximum current_streak observed in the
\* calls so far.
C25_BestObserved == [][C25_Streak /\ C25_BestOfCalls]_vars

C25_State ==
    \A user \in StatsUsers :
        /\ user_stats[user].best_streak >= 0
        /\ user_stats[user].best_streak >= user_stats[user].current_streak
        /\ user_stats[user].total_markets = 0 =>
            user_stats[user].best_streak = 0 /\ user_stats[user].current_streak = 0

C25_Step == C25_Streak /\ C25_BestFromZero

\* C25: every successful update_user_stats moves current_streak as stated
\* (Win: + 1 from >= 0, else 1; Loss: - 1 from <= 0, else -1), a failed one
\* changes nothing, and best_streak is the maximum of 0 and of every
\* current_streak reached so far.
C25_StreakFold == []C25_State /\ [][C25_Step]_vars

\* a win after a run of losses: the streak is reset to 1, which is the best
C25_Witness ==
    /\ result = Call("update_user_stats", "Ok")
    /\ user_stats["u1"].losses >= 2
    /\ user_stats["u1"].current_streak = 1
    /\ user_stats["u1"].best_streak = 1

----------------------------------------------------------------------------
(* C26 *)

\* C26: every successful resolve, whoever the resolver is, credits the
\* creator fee to the market's creator and the platform fee to the
\* platform's fee-collection account (PlatformWallet); the resolver cannot
\* direct the platform fee to another account.
C26_PlatformFee ==
    [][\A m \in Markets : result' = Call("resolve", "Ok") =>
          lamports' = Moved(Moved(lamports, m, markets[m].creator,
                                  FeeOf(m, CREATOR_FEE_BPS)),
                            m, PlatformWallet, FeeOf(m, PLATFORM_FEE_BPS))]_vars

----------------------------------------------------------------------------
(* C27 *)

\* C27 as stated: every withdraw from a market that is not Resolved fails
\* with the not-resolved error, whoever makes it.
C27_AlwaysNotResolved ==
    \A m \in Markets, user \in Users :
        MarketExists(m) /\ markets[m].status # "Resolved" =>
            WithdrawResult(m, user).err = "MarketNotResolved"

C27_State ==
    \A m \in Markets : MarketExists(m) =>
        /\ markets[m].kickoff_time < markets[m].end_time
        /\ markets[m].status # "Resolved" =>
            \A user \in Users :
                /\ WithdrawResult(m, user).err # "Ok"
                /\ ParticipantExists(m, user) =>
                    WithdrawResult(m, user).err = "MarketNotResolved"
        /\ markets[m].status = "Resolved" =>
            \A user \in Users, prediction \in MatchOutcome :
                JoinResult(m, user, prediction).err # "Ok"

C27_Step ==
    /\ now' >= now
    /\ \A m \in Markets :
        /\ result' = Call("withdraw", "Ok") =>
            markets[m].status = "Resolved" /\ markets'[m].status = "Resolved"
        /\ result' = Call("join", "Ok") =>
            markets[m].status = "Open" /\ markets'[m].status = "Open"
        /\ markets[m].status # "Resolved" /\ markets'[m].status = "Resolved" =>
            result' = Call("resolve", "Ok")
        /\ markets[m].status = "Resolved" => markets'[m].status = "Resolved"
        /\ result'.op = "withdraw" /\ result'.err # "Ok" => lamports' = lamports

\* C27: a withdraw succeeds only on a Resolved market, which only a
\* successful resolve makes and nothing unmakes, and a join only on an Open
\* one, so every successful join precedes the resolve and every successful
\* withdraw follows it; while the market is not Resolved no withdraw
\* succeeds, a participant's withdraw fails with MarketNotResolved and
\* transfers nothing; once it is Resolved no join succeeds; kickoff_time <
\* end_time in every market and the clock never goes back.
C27_Ordering == []C27_State /\ [][C27_Step]_vars

\* a participant's withdraw before the resolve was refused
C27_Witness ==
    /\ result = Call("withdraw", "MarketNotResolved")
    /\ markets["EPL-1"].status = "Open"
    /\ \E user \in Users : ParticipantExists("EPL-1", user)

----------------------------------------------------------------------------
(* C28 *)

\* the participant records of the market m with the prediction o
Predicted(m, o) == {u \in Records(m) : participants[<<m, u>>].prediction = o}

\* C28: for each outcome the market's counter equals the number of
\* participant records of the market with that prediction, so the
\* winner_count that resolve and withdraw read is the number of participants
\* whose prediction is the outcome, and it is at least 1 whenever some
\* participant's prediction is the outcome: the division of withdraw is
\* never by zero.
C28_CountersAgree ==
    \A m \in MarketKeys : MarketExists(m) =>
        /\ markets[m].home_count = Cardinality(Predicted(m, "Home"))
        /\ markets[m].draw_count = Cardinality(Predicted(m, "Draw"))
        /\ markets[m].away_count = Cardinality(Predicted(m, "Away"))
        /\ Resolved(m) =>
            /\ winner_count(markets[m], markets[m].outcome) = Cardinality(Winners(m))
            /\ \A u \in Winners(m) :
                /\ winner_count(markets[m], markets[m].outcome) >= 1
                /\ withdraw_checks(markets[m], participants[<<m, u>>])
                      \in {"Ok", "AlreadyWithdrawn"}
                /\ WithdrawResult(m, u).err # "NoWinners"

\* a resolved market with two winners and a loser, one winner paid
C28_Witness ==
    /\ Resolved("EPL-1")
    /\ Cardinality(Winners("EPL-1")) = 2
    /\ Cardinality(Records("EPL-1")) = 3
    /\ markets["EPL-1"].outcome = "Draw"
    /\ Cardinality(Paid("EPL-1")) = 1

----------------------------------------------------------------------------
(* C29 *)

\* the reward of the resolved market m from the fields that are frozen
FrozenReward(m) ==
    (markets[m].total_pool - FeeOf(m, CREATOR_FEE_BPS) - FeeOf(m, PLATFORM_FEE_BPS))
        \div Cardinality(Winners(m))

C29_Step ==
    \A m \in Markets : Resolved(m) =>
        /\ markets'[m] = markets[m]
        /\ Records(m)' = Records(m)
        /\ \A u \in Records(m) :
            participants'[<<m, u>>].prediction = participants[<<m, u>>].prediction
        /\ result' = Call("withdraw", "Ok") =>
            \E u \in Winners(m) \ Paid(m) :
                /\ Paid(m)' = Paid(m) \cup {u}
                /\ lamports' = Moved(lamports, m, u, FrozenReward(m))
                /\ FrozenReward(m)' = FrozenReward(m)

\* C29: once a market is resolved its total_pool, participant_count,
\* counters and outcome and every participant's prediction never change,
\* so every winner's successful withdraw transfers the same amount,
\* floor((total_pool - creatorFee - platformFee) / winner_count), however
\* many winners withdrew before and in whichever order.
C29_EqualRewards == [][C29_Step]_vars

\* both winners of a pool of 300 have withdrawn, one after the other
C29_Witness ==
    /\ result = Call("withdraw", "Ok")
    /\ markets["EPL-1"].total_pool = 300
    /\ Cardinality(Winners("EPL-1")) = 2
    /\ Cardinality(Paid("EPL-1")) = 2
    /\ \A u \in Winners("EPL-1") :
        lamports[u] >= PoorBalance - ParticipantRent - 100 + FrozenReward("EPL-1")

====
